---------------------------- MODULE Spec2Model ----------------------------
(***************************************************************************)
(* Bedtime story generator (src/main.py): the judge-feedback parser        *)
(* (parse_judge_feedback), the revision request builder (story_editor) and *)
(* the control flow of main.                                               *)
(*                                                                         *)
(* Text is a sequence of characters, each character a one-character        *)
(* string; the regular expressions of the parser are computed character    *)
(* by character, as Python's re module computes them.  Stories and topics  *)
(* are opaque to the program (it only passes them on), so they are         *)
(* identifiers.                                                            *)
(***************************************************************************)
EXTENDS Integers, Sequences, FiniteSets, TLC

\* ------------------------------------------------------------------ bounds

\* The judge text of one judge call holds at most MaxBlocks blocks.
MaxBlocks == 2

\* The revision loop is followed up to this value of the iteration counter.
MaxIter == 3

\* The parser is applied to every text of at most MaxLen characters of
\* ParserAlphabet,
MaxLen == 4

\* and to every entry written in one of the two shapes whose reasoning has at
\* most MaxFree characters of FreeAlphabet.
MaxFree == 4

\* ----------------------------------------------------------- characters

Min(S) == CHOOSE x \in S : \A y \in S : x <= y

Max(S) == CHOOSE x \in S : \A y \in S : x >= y

\* Python's str.isspace / the regex class \s, on the characters of the model.
IsSpace(c) == c \in {" ", "\n", "\t"}

\* IsScoreDigit for the class [1-5].
IsScoreDigitToFive(c) == c \in {"1", "2", "3", "4", "5"}

\* The regex class [1-4].
IsScoreDigit(c) == c \in {"1", "2", "3", "4"}

\* The regex class [:\-–] (the en dash is written "endash").
IsSep(c) == c \in {":", "-", "endash"}

\* str.lower / re.IGNORECASE on the letters of the two keywords.
Lower(c) ==
    CASE c = "R" -> "r" [] c = "E" -> "e" [] c = "A" -> "a" [] c = "S" -> "s"
      [] c = "O" -> "o" [] c = "N" -> "n" [] c = "I" -> "i" [] c = "G" -> "g"
      [] c = "J" -> "j" [] c = "U" -> "u" [] c = "T" -> "t" [] c = "F" -> "f"
      [] c = "C" -> "c" [] OTHER -> c

\* int() of a score character.
int(c) == CASE c = "1" -> 1 [] c = "2" -> 2 [] c = "3" -> 3 [] c = "4" -> 4

\* str() of a score.
str(n) == CASE n = 1 -> "1" [] n = 2 -> "2" [] n = 3 -> "3" [] n = 4 -> "4"

\* s[i..] (Python s[i-1:]).
From(s, i) == SubSeq(s, i, Len(s))

\* The first position >= i of s that holds no whitespace, Len(s)+1 if none:
\* where a greedy \s* starting at i ends.
SkipSpace(s, i) == Min({j \in i..Len(s) : ~IsSpace(s[j])} \cup {Len(s) + 1})

\* Where a greedy [:\-–]* starting at i ends.
SkipSep(s, i) == Min({j \in i..Len(s) : ~IsSep(s[j])} \cup {Len(s) + 1})

\* str.strip().
strip(s) ==
    LET I == {i \in 1..Len(s) : ~IsSpace(s[i])}
    IN  IF I = {} THEN <<>> ELSE SubSeq(s, Min(I), Max(I))

\* str.replace('\n', ' ').
replace_newlines(s) == [i \in 1..Len(s) |-> IF s[i] = "\n" THEN " " ELSE s[i]]

\* The matches of \n\s*\n that start at j: the positions k of the closing \n.
BlankEnds(s, j) ==
    {k \in (j + 1)..Len(s) : s[k] = "\n" /\ \A i \in (j + 1)..(k - 1) : IsSpace(s[i])}

\* re.split(r'\n\s*\n', s): leftmost match first, \s* greedy.
RECURSIVE re_split_blank(_)
re_split_blank(s) ==
    LET starts == {j \in 1..Len(s) : s[j] = "\n" /\ BlankEnds(s, j) # {}}
    IN  IF starts = {} THEN <<s>>
        ELSE LET j == Min(starts)
                 k == Max(BlankEnds(s, j))
             IN  <<SubSeq(s, 1, j - 1)>> \o re_split_blank(From(s, k + 1))

\* str.splitlines(), on text whose only line break is \n.
RECURSIVE splitlines(_)
splitlines(s) ==
    LET nl == {j \in 1..Len(s) : s[j] = "\n"}
    IN  IF s = <<>> THEN <<>>
        ELSE IF nl = {} THEN <<s>>
        ELSE <<SubSeq(s, 1, Min(nl) - 1)>> \o splitlines(From(s, Min(nl) + 1))

\* [l.strip() for l in entry.splitlines() if l.strip()]
RECURSIVE stripped_lines(_)
stripped_lines(ls) ==
    IF ls = <<>> THEN <<>>
    ELSE IF strip(Head(ls)) = <<>> THEN stripped_lines(Tail(ls))
    ELSE <<strip(Head(ls))>> \o stripped_lines(Tail(ls))

\* ------------------------------------------------- parse_judge_feedback

\* The regex atom "." : any character but a line break.
IsDot(c) == c # "\n"

Justification == <<"j", "u", "s", "t", "i", "f", "i", "c", "a", "t", "i", "o", "n">>

Reasoning == <<"r", "e", "a", "s", "o", "n", "i", "n", "g">>

NoMatch == [matched |-> FALSE, cat |-> <<>>, score |-> "", reason |-> <<>>]

\* After a category of n characters the rest of the inline pattern
\*   \s*\(\s*[1-4]\s*\)\s*[:\-–]*\s*(?P<reason>.+)$
\* matches: t is the place of the closing parenthesis.
InlineClose(b, n) ==
    LET q == SkipSpace(b, n + 1)
        r == SkipSpace(b, q + 1)
        t == SkipSpace(b, r + 1)
    IN  IF /\ q <= Len(b) /\ b[q] = "("
           /\ r <= Len(b) /\ IsScoreDigit(b[r])
           /\ t <= Len(b) /\ b[t] = ")"
        THEN t ELSE 0

\* ReasonStart when the reasoning is cut at a later colon or dash: the group
\* starts after the last separator character of the block.
ReasonStartAfterLastSep(b, t) ==
    LET seps == {i \in t + 1..Len(b) : IsSep(b[i])}
        u == IF seps = {} THEN SkipSpace(b, t + 1)
             ELSE SkipSpace(b, Max(seps) + 1)
    IN  IF u <= Len(b) THEN u ELSE Len(b)

\* Where the group reason starts once \s*[:\-–]*\s* took all it can after the
\* closing parenthesis at t; when that leaves nothing, backtracking gives the
\* last character back to the group.
ReasonStart(b, t) ==
    LET u == SkipSpace(b, SkipSep(b, SkipSpace(b, t + 1)))
    IN  IF u <= Len(b) THEN u ELSE Len(b)

\* InlineAt with the group reason written (?P<reason>.*): an empty reasoning
\* matches.
InlineAtEmptyReason(b, n) ==
    LET t == InlineClose(b, n)
    IN  /\ \A i \in 1..n : IsDot(b[i])
        /\ t # 0
        /\ \A i \in ReasonStart(b, t)..Len(b) : IsDot(b[i])

InlineAt(b, n) ==
    LET t == InlineClose(b, n)
    IN  /\ \A i \in 1..n : IsDot(b[i])
        /\ t # 0
        /\ t < Len(b)
        /\ \A i \in ReasonStart(b, t)..Len(b) : IsDot(b[i])

\* re.match(r'^(?P<cat>.+?)\s*\(\s*(?P<score>[1-4])\s*\)\s*[:\-–]*\s*(?P<reason>.+)$', block):
\* the category is the shortest prefix after which the rest matches.
MatchInline(b) ==
    LET N == {n \in 1..Len(b) : InlineAt(b, n)}
    IN  IF N = {} THEN NoMatch
        ELSE LET n == Min(N)
                 t == InlineClose(b, n)
             IN  [matched |-> TRUE,
                  cat     |-> SubSeq(b, 1, n),
                  score   |-> b[SkipSpace(b, SkipSpace(b, n + 1) + 1)],
                  reason  |-> From(b, ReasonStart(b, t))]

TwoLineAt(l, n) ==
    LET r == SkipSpace(l, n + 2)
    IN  /\ \A i \in 1..n : IsDot(l[i])
        /\ n + 1 <= Len(l) /\ l[n + 1] = ":"
        /\ r <= Len(l) /\ IsScoreDigit(l[r])
        /\ SkipSpace(l, r + 1) = Len(l) + 1

\* re.match(r'^(?P<cat>.+?):\s*(?P<score>[1-4])\s*$', lines[0])
MatchTwoLine(l) ==
    LET N == {n \in 1..Len(l) : TwoLineAt(l, n)}
    IN  IF N = {} THEN NoMatch
        ELSE LET n == Min(N)
             IN  [matched |-> TRUE,
                  cat     |-> SubSeq(l, 1, n),
                  score   |-> l[SkipSpace(l, n + 2)],
                  reason  |-> <<>>]

\* The line starts with the keyword kw in any letter case, then a colon, then
\* (after whitespace) at least one character.
KeywordAt(l, kw) ==
    /\ Len(l) > Len(kw) + 1
    /\ \A i \in 1..Len(kw) : Lower(l[i]) = kw[i]
    /\ l[Len(kw) + 1] = ":"
    /\ SkipSpace(l, Len(kw) + 2) <= Len(l)
    /\ \A i \in SkipSpace(l, Len(kw) + 2)..Len(l) : IsDot(l[i])

\* re.match(r'^(?:Justification|Reasoning):\s*(.+)$', l, re.IGNORECASE)
MatchReason(l) ==
    IF KeywordAt(l, Justification)
    THEN [matched |-> TRUE, reason |-> From(l, SkipSpace(l, Len(Justification) + 2))]
    ELSE IF KeywordAt(l, Reasoning)
    THEN [matched |-> TRUE, reason |-> From(l, SkipSpace(l, Len(Reasoning) + 2))]
    ELSE [matched |-> FALSE, reason |-> <<>>]

\* find_reason without the break: the last line that matches gives the reason.
RECURSIVE find_last_reason(_)
find_last_reason(ls) ==
    IF ls = <<>> THEN <<>>
    ELSE IF find_last_reason(Tail(ls)) # <<>> THEN find_last_reason(Tail(ls))
    ELSE IF MatchReason(Head(ls)).matched THEN strip(MatchReason(Head(ls)).reason)
    ELSE <<>>

\* find_reason with a default text in place of "" when no line matches.
RECURSIVE find_reason_or_none(_)
find_reason_or_none(ls) ==
    IF ls = <<>> THEN <<"n", "o", "n", "e">>
    ELSE IF MatchReason(Head(ls)).matched THEN strip(MatchReason(Head(ls)).reason)
    ELSE find_reason_or_none(Tail(ls))

\* for l in lines[1:]: the first line that matches gives the reason, "" if none.
RECURSIVE find_reason(_)
find_reason(ls) ==
    IF ls = <<>> THEN <<>>
    ELSE IF MatchReason(Head(ls)).matched THEN strip(MatchReason(Head(ls)).reason)
    ELSE find_reason(Tail(ls))

\* dict_set with the key folded to lower case.
dict_set_casefold(feedback, cat, score, reason) ==
    LET key == [i \in 1..Len(cat) |-> Lower(cat[i])]
        e == [cat |-> key, score |-> score, reasoning |-> reason]
    IN  IF \E i \in 1..Len(feedback) : feedback[i].cat = key
        THEN [i \in 1..Len(feedback) |->
                 IF feedback[i].cat = key THEN e ELSE feedback[i]]
        ELSE Append(feedback, e)

\* dict_set that deletes an existing key first: the label moves to the end.
dict_set_move_to_end(feedback, cat, score, reason) ==
    Append(SelectSeq(feedback, LAMBDA f : f.cat # cat),
           [cat |-> cat, score |-> score, reasoning |-> reason])

\* dict_set as feedback.setdefault(cat, ...): the first entry of a label stays.
dict_set_keep_first(feedback, cat, score, reason) ==
    IF \E i \in 1..Len(feedback) : feedback[i].cat = cat
    THEN feedback
    ELSE Append(feedback, [cat |-> cat, score |-> score, reasoning |-> reason])

\* feedback[cat] = {"score": score, "reasoning": reason} on a dict, which keeps
\* its keys in insertion order: an existing key keeps its place.
dict_set(feedback, cat, score, reason) ==
    LET e == [cat |-> cat, score |-> score, reasoning |-> reason]
    IN  IF \E i \in 1..Len(feedback) : feedback[i].cat = cat
        THEN [i \in 1..Len(feedback) |->
                 IF feedback[i].cat = cat THEN e ELSE feedback[i]]
        ELSE Append(feedback, e)

\* SkipsEntry with the test for an empty entry left out.
SkipsEntryNever(entry) == FALSE

\* if not entry: continue
SkipsEntry(entry) == entry = <<>>

\* parse_entry with the two-line shape tried on the first line before the
\* inline shape on the joined block.
parse_entry_two_line_first(res, rawentry) ==
    LET entry == strip(rawentry)
        block == replace_newlines(entry)
        m1    == MatchInline(block)
        lines == stripped_lines(splitlines(entry))
        m2    == MatchTwoLine(lines[1])
    IN  IF res.raised \/ SkipsEntry(entry) THEN res
        ELSE IF lines = <<>> THEN [res EXCEPT !.raised = TRUE]
        ELSE IF m2.matched
        THEN [res EXCEPT !.feedback =
                 dict_set(@, strip(m2.cat), m2.score, find_reason(Tail(lines)))]
        ELSE IF m1.matched
        THEN [res EXCEPT !.feedback =
                 dict_set(@, strip(m1.cat), m1.score, strip(m1.reason))]
        ELSE res

\* The body of the loop over the entries, for one entry; raised is the
\* IndexError of lines[0] on an empty list of lines.
parse_entry(res, rawentry) ==
    LET entry == strip(rawentry)
        block == replace_newlines(entry)
        m1    == MatchInline(block)
        lines == stripped_lines(splitlines(entry))
        m2    == MatchTwoLine(lines[1])
    IN  IF res.raised \/ SkipsEntry(entry) THEN res
        ELSE IF m1.matched
        THEN [res EXCEPT !.feedback =
                 dict_set(@, strip(m1.cat), m1.score, strip(m1.reason))]
        ELSE IF lines = <<>> THEN [res EXCEPT !.raised = TRUE]
        ELSE IF m2.matched
        THEN [res EXCEPT !.feedback =
                 dict_set(@, strip(m2.cat), m2.score, find_reason(Tail(lines)))]
        ELSE res

\* parse_entries leaving the loop at the first entry that records nothing.
RECURSIVE parse_entries_break(_, _)
parse_entries_break(res, entries) ==
    IF entries = <<>> THEN res
    ELSE LET r == parse_entry(res, Head(entries))
         IN  IF r = res THEN res ELSE parse_entries_break(r, Tail(entries))

RECURSIVE parse_entries(_, _)
parse_entries(res, entries) ==
    IF entries = <<>> THEN res
    ELSE parse_entries(parse_entry(res, Head(entries)), Tail(entries))

\* parse_judge_feedback(text): the CritiqueSet as the sequence of its entries
\* in the dict's iteration order, and whether the call raised.
parse_judge_feedback(text) ==
    parse_entries([raised |-> FALSE, feedback |-> <<>>], re_split_blank(strip(text)))


\* --------------------------------------------------------- story_editor

\* IsLow with the threshold off by one.
IsLowBelow3(e) == int(e.score) < 3

\* int(info["score"]) < 4
IsLow(e) == int(e.score) < 4

\* issue_line with the reasoning left out.
issue_line_no_reason(e) ==
    <<"-", " ">> \o e.cat \o <<":", " ", "s", "c", "o", "r", "e", " ">>
        \o <<str(int(e.score))>>
        \o <<" ", "b", "e", "c", "a", "u", "s", "e", " ">>

\* f"- {cat}: score {score} because {info['reasoning']}"
issue_line(e) ==
    <<"-", " ">> \o e.cat \o <<":", " ", "s", "c", "o", "r", "e", " ">>
        \o <<str(int(e.score))>>
        \o <<" ", "b", "e", "c", "a", "u", "s", "e", " ">> \o e.reasoning

\* collect_issues that stops at the first low entry.
RECURSIVE collect_first_issue(_)
collect_first_issue(feedback) ==
    IF feedback = <<>> THEN <<>>
    ELSE IF int(Head(feedback).score) < 4
    THEN <<issue_line(Head(feedback))>>
    ELSE collect_first_issue(Tail(feedback))

\* The list issues: one line for every entry of the feedback, in its order,
\* that scores below 4.
RECURSIVE collect_issues(_)
collect_issues(feedback) ==
    IF feedback = <<>> THEN <<>>
    ELSE IF IsLow(Head(feedback))
    THEN <<issue_line(Head(feedback))>> \o collect_issues(Tail(feedback))
    ELSE collect_issues(Tail(feedback))

\* "\n".join(issues)
RECURSIVE join_lines(_)
join_lines(ls) ==
    IF ls = <<>> THEN <<>>
    ELSE IF Len(ls) = 1 THEN Head(ls)
    ELSE Head(ls) \o <<"\n">> \o join_lines(Tail(ls))

\* editor_returns_early that looks at the first entry only.
editor_returns_early_first(feedback) == feedback = <<>> \/ ~IsLow(Head(feedback))

\* editor_returns_early with the early return left out.
editor_never_returns_early(feedback) == FALSE

\* if not issues: return story  (no call is made)
editor_returns_early(feedback) == collect_issues(feedback) = <<>>

\* user_msg with the topic in the place of the story.
user_msg_topic_as_story(prompt, story, feedback) ==
    [prompt      |-> prompt,
     story       |-> prompt,
     suggestions |-> join_lines(collect_issues(feedback))]

\* The user message of the revision request: the prompt, the story and the
\* suggestions, which the fixed text of the message surrounds.
user_msg(prompt, story, feedback) ==
    [prompt      |-> prompt,
     story       |-> story,
     suggestions |-> join_lines(collect_issues(feedback))]


\* ------------------------------------------------- inputs of the program

\* What the user may type at the prompt (after strip()).
TypedInputs == {"1", "2", "moon"}

\* str.isdigit() and int() on the typed inputs.
isdigit(u) == u \in {"1", "2"}

int_of_input(u) == CASE u = "1" -> 1 [] u = "2" -> 2

\* What filter_user_input may return: the three categories, or anything else.
Classifications == {"SAFE", "AMBIGUOUS", "INAPPROPRIATE", "Safe."}

\* What suggest_safe_prompts may return: the reply's non-blank lines.
SuggestionLists == {<<>>, <<"stars">>}

\* What generate_story and story_editor's completion may return.
Stories == {"s1", "s2"}

\* The shapes of a block of judge text, for a category, a score token and a
\* reasoning.
InlineBlock(cat, tok, reason) ==
    cat \o <<" ", "(">> \o tok \o <<")", ":", " ">> \o reason

ScoreLine(cat, tok) == cat \o <<":", " ">> \o tok

ReasoningLine(reason) ==
    <<"R", "e", "a", "s", "o", "n", "i", "n", "g", ":", " ">> \o reason

TwoLineBlock(cat, tok, reason) == ScoreLine(cat, tok) \o <<"\n">> \o ReasoningLine(reason)

BareInlineBlock(cat, tok) == cat \o <<" ", "(">> \o tok \o <<")">>

\* The blocks the judge may write: scored 4 and below 4 in both shapes, a
\* score with no reasoning, a low score in a form the parser does not
\* recognise, a score out of range, and blank text.
FourInline == InlineBlock(<<"a">>, <<"4">>, <<"o", "k">>)

LowTwoLine == TwoLineBlock(<<"b">>, <<"2">>, <<"n", "o">>)

LowScoreOnly == ScoreLine(<<"a">>, <<"3">>)

LowBare == BareInlineBlock(<<"b">>, <<"2">>)

OutOfRange == TwoLineBlock(<<"a">>, <<"5">>, <<"o", "k">>)

JudgeBlocks == {FourInline, LowTwoLine, LowScoreOnly, LowBare, OutOfRange, <<" ">>}

BlankLine == <<"\n", "\n">>

\* The texts of n blocks of B, a blank line between them.
RECURSIVE TextsOf(_, _)
TextsOf(B, n) ==
    IF n = 0 THEN {<<>>}
    ELSE IF n = 1 THEN B
    ELSE {t \o BlankLine \o b : t \in TextsOf(B, n - 1), b \in B}

\* What judge_story may return: up to MaxBlocks blocks, a blank line between
\* them.
JudgeTexts == UNION {TextsOf(JudgeBlocks, n) : n \in 0..MaxBlocks}

\* parse_judge_feedback on every judge text.
ParsedJudgeTexts == [t \in JudgeTexts |-> parse_judge_feedback(t)]

\* ---------------------------------------------------------------- main

VARIABLES
    pc,                \* where main is
    suggestions,       \* main's list of suggested prompts
    user_input,        \* the typed input, then the topic
    story,             \* the current story
    generated_stories, \* the module's list generated_stories
    iteration,         \* the iteration counter
    judge_feedback,    \* the judge's raw text
    parsed_feedback,   \* the CritiqueSet parsed from it
    low,               \* its entries that score below 4
    revised_story,     \* main's revised_story: what story_editor returned
    request,           \* the user message last sent by story_editor
    judge_request,     \* the topic and story last passed to judge_story
    last_call,         \* the collaborator called last
    judge_calls,       \* the number of judge_story calls
    revise_calls,      \* the number of completions story_editor asked for
    printed,           \* what main printed as the final story
    written            \* the entry a parser input was written from

vars == <<pc, suggestions, user_input, story, generated_stories, iteration,
          judge_feedback, parsed_feedback, low, revised_story, request,
          judge_request, last_call, judge_calls, revise_calls, printed, written>>

\* A variable main has not assigned yet.
Unbound == "unbound"

NoRequest == [prompt |-> Unbound, story |-> Unbound, suggestions |-> <<>>]

NoJudgeRequest == [prompt |-> Unbound, story |-> Unbound]

NoEntry == [shape |-> "none", cat |-> <<>>, tok |-> <<>>, reason |-> <<>>]

\* main starts at its input loop; generated_stories is empty.  The locals
\* main binds later hold Unbound, 0 or the empty sequence until then.
Init ==
    /\ pc = "input"
    /\ suggestions = <<>>
    /\ user_input = Unbound
    /\ story = Unbound
    /\ generated_stories = <<>>
    /\ iteration = 0
    /\ judge_feedback = <<>>
    /\ parsed_feedback = <<>>
    /\ low = <<>>
    /\ revised_story = Unbound
    /\ request = NoRequest
    /\ judge_request = NoJudgeRequest
    /\ last_call = "none"
    /\ judge_calls = 0
    /\ revise_calls = 0
    /\ printed = <<>>
    /\ written = NoEntry

loop_vars == <<story, generated_stories, iteration, judge_feedback,
               parsed_feedback, low, revised_story, printed, written>>

call_vars == <<request, judge_request, judge_calls, revise_calls>>

\* Case 1 of the input loop: a number typed while suggestions is not empty.
ChooseSuggestion(u) ==
    /\ pc = "input"
    /\ isdigit(u) /\ suggestions # <<>>
    /\ IF 0 <= int_of_input(u) - 1 /\ int_of_input(u) - 1 < Len(suggestions)
       THEN user_input' = suggestions[int_of_input(u)] /\ pc' = "generate"
       ELSE user_input' = u /\ pc' = "input"
    /\ UNCHANGED <<suggestions, last_call, loop_vars, call_vars>>

\* ClassifyInput with the verdict compared without regard to case and
\* punctuation: "Safe." ends the input loop too.
ClassifyInputLoose(u, classification) ==
    /\ pc = "input"
    /\ ~(isdigit(u) /\ suggestions # <<>>)
    /\ user_input' = u
    /\ last_call' = "classify"
    /\ pc' = CASE classification \in {"SAFE", "Safe."} -> "generate"
               [] classification = "INAPPROPRIATE" -> "suggest"
               [] OTHER -> "input"
    /\ UNCHANGED <<suggestions, loop_vars, call_vars>>

\* Case 2: the typed prompt is classified.
ClassifyInput(u, classification) ==
    /\ pc = "input"
    /\ ~(isdigit(u) /\ suggestions # <<>>)
    /\ user_input' = u
    /\ last_call' = "classify"
    /\ pc' = CASE classification = "SAFE" -> "generate"
               [] classification = "INAPPROPRIATE" -> "suggest"
               [] OTHER -> "input"
    /\ UNCHANGED <<suggestions, loop_vars, call_vars>>

\* suggestions = suggest_safe_prompts(3)
SuggestPrompts(l) ==
    /\ pc = "suggest"
    /\ suggestions' = l
    /\ last_call' = "suggest"
    /\ pc' = "input"
    /\ UNCHANGED <<user_input, loop_vars, call_vars>>

\* story = generate_story(user_input); generated_stories.append(story);
\* iteration = 1
GenerateStory(s) ==
    /\ pc = "generate"
    /\ story' = s
    /\ generated_stories' = Append(generated_stories, s)
    /\ iteration' = 1
    /\ last_call' = "generate"
    /\ pc' = "judge"
    /\ UNCHANGED <<suggestions, user_input, judge_feedback, parsed_feedback, low,
                   revised_story, printed, written, call_vars>>

\* low = [(cat, info) for cat, info in parsed_feedback.items()
\*        if int(info["score"]) < 4]
low_entries(feedback) == SelectSeq(feedback, IsLow)

\* Converges with the test inverted.
ConvergesInverted(l) == l # <<>>

\* if not low: break
Converges(l) == l = <<>>

\* iteration += 1 without the increment.
next_iteration_same(i) == i

\* iteration += 1
next_iteration(i) == i + 1

\* The loop test of a single revision: the revised story is not judged again.
loop_ends_after_revision(i) == FALSE

\* The loop test with a cap of two iterations.
loop_capped(i) == i <= 2

\* while True:
loop_continues(i) == TRUE

\* JudgeStep with the new entries put into the CritiqueSet of the pass before
\* (feedback not reset to {} at the call).
JudgeStepMerging(t) ==
    /\ pc = "judge"
    /\ judge_request' = [prompt |-> user_input, story |-> story]
    /\ judge_feedback' = t
    /\ judge_calls' = judge_calls + 1
    /\ last_call' = "judge"
    /\ LET res == parse_entries([raised |-> FALSE, feedback |-> parsed_feedback],
                                re_split_blank(strip(t)))
       IN  IF res.raised
           THEN /\ pc' = "fault"
                /\ UNCHANGED <<parsed_feedback, low>>
           ELSE /\ parsed_feedback' = res.feedback
                /\ low' = low_entries(parsed_feedback')
                /\ pc' = IF Converges(low') THEN "print" ELSE "revise"
    /\ UNCHANGED <<suggestions, user_input, story, generated_stories, iteration,
                   revised_story, request, revise_calls, printed, written>>

\* One pass of the loop up to its test: the judge is called and returns t,
\* the text is parsed, low is built, and the loop breaks or goes on to revise.
JudgeStep(t) ==
    /\ pc = "judge"
    /\ judge_request' = [prompt |-> user_input, story |-> story]
    /\ judge_feedback' = t
    /\ judge_calls' = judge_calls + 1
    /\ last_call' = "judge"
    /\ IF ParsedJudgeTexts[t].raised
       THEN /\ pc' = "fault"
            /\ UNCHANGED <<parsed_feedback, low>>
       ELSE /\ parsed_feedback' = ParsedJudgeTexts[t].feedback
            /\ low' = low_entries(parsed_feedback')
            /\ pc' = IF Converges(low') THEN "print" ELSE "revise"
    /\ UNCHANGED <<suggestions, user_input, story, generated_stories, iteration,
                   revised_story, request, revise_calls, printed, written>>

\* ReviseStep with every revised story put on the list of generated stories.
ReviseStepRecording(s) ==
    /\ pc = "revise"
    /\ iteration < MaxIter
    /\ IF editor_returns_early(parsed_feedback)
       THEN /\ revised_story' = story
            /\ UNCHANGED <<request, revise_calls, last_call>>
       ELSE /\ request' = user_msg(user_input, story, parsed_feedback)
            /\ revise_calls' = revise_calls + 1
            /\ last_call' = "revise"
            /\ revised_story' = s
    /\ story' = revised_story'
    /\ generated_stories' = Append(generated_stories, story')
    /\ iteration' = next_iteration(iteration)
    /\ pc' = IF loop_continues(iteration') THEN "judge" ELSE "print"
    /\ UNCHANGED <<suggestions, user_input, judge_feedback,
                   parsed_feedback, low, judge_request, judge_calls, printed,
                   written>>

\* revised_story = story_editor(user_input, story, parsed_feedback);
\* story = revised_story; iteration += 1.  The completion returns s.
ReviseStep(s) ==
    /\ pc = "revise"
    /\ iteration < MaxIter
    /\ IF editor_returns_early(parsed_feedback)
       THEN /\ revised_story' = story
            /\ UNCHANGED <<request, revise_calls, last_call>>
       ELSE /\ request' = user_msg(user_input, story, parsed_feedback)
            /\ revise_calls' = revise_calls + 1
            /\ last_call' = "revise"
            /\ revised_story' = s
    /\ story' = revised_story'
    /\ iteration' = next_iteration(iteration)
    /\ pc' = IF loop_continues(iteration') THEN "judge" ELSE "print"
    /\ UNCHANGED <<suggestions, user_input, generated_stories, judge_feedback,
                   parsed_feedback, low, judge_request, judge_calls, printed,
                   written>>

\* print(f"\n{story}")
PrintStory ==
    /\ pc = "print"
    /\ printed' = <<story>>
    /\ pc' = "done"
    /\ UNCHANGED <<suggestions, user_input, story, generated_stories, iteration,
                   judge_feedback, parsed_feedback, low, revised_story,
                   last_call, written, call_vars>>

\* CallFails with the failure caught and the call made again.
CallFailsRetried ==
    /\ CASE pc = "input" ->
              /\ \E u \in TypedInputs :
                    ~(isdigit(u) /\ suggestions # <<>>) /\ user_input' = u
              /\ last_call' = "classify"
              /\ UNCHANGED call_vars
         [] pc = "suggest" ->
              /\ last_call' = "suggest"
              /\ UNCHANGED <<user_input, call_vars>>
         [] pc = "generate" ->
              /\ last_call' = "generate"
              /\ UNCHANGED <<user_input, call_vars>>
         [] pc = "judge" ->
              /\ last_call' = "judge"
              /\ judge_request' = [prompt |-> user_input, story |-> story]
              /\ judge_calls' = judge_calls + 1
              /\ UNCHANGED <<user_input, request, revise_calls>>
         [] pc = "revise" ->
              /\ iteration < MaxIter
              /\ ~editor_returns_early(parsed_feedback)
              /\ last_call' = "revise"
              /\ request' = user_msg(user_input, story, parsed_feedback)
              /\ revise_calls' = revise_calls + 1
              /\ UNCHANGED <<user_input, judge_request, judge_calls>>
         [] OTHER -> FALSE
    /\ pc' = pc
    /\ UNCHANGED <<suggestions, loop_vars>>

\* A collaborator call raises (the service fails): nothing in main catches it.
CallFails ==
    /\ CASE pc = "input" ->
              /\ \E u \in TypedInputs :
                    ~(isdigit(u) /\ suggestions # <<>>) /\ user_input' = u
              /\ last_call' = "classify"
              /\ UNCHANGED call_vars
         [] pc = "suggest" ->
              /\ last_call' = "suggest"
              /\ UNCHANGED <<user_input, call_vars>>
         [] pc = "generate" ->
              /\ last_call' = "generate"
              /\ UNCHANGED <<user_input, call_vars>>
         [] pc = "judge" ->
              /\ last_call' = "judge"
              /\ judge_request' = [prompt |-> user_input, story |-> story]
              /\ judge_calls' = judge_calls + 1
              /\ UNCHANGED <<user_input, request, revise_calls>>
         [] pc = "revise" ->
              /\ iteration < MaxIter
              /\ ~editor_returns_early(parsed_feedback)
              /\ last_call' = "revise"
              /\ request' = user_msg(user_input, story, parsed_feedback)
              /\ revise_calls' = revise_calls + 1
              /\ UNCHANGED <<user_input, judge_request, judge_calls>>
         [] OTHER -> FALSE
    /\ pc' = "fault"
    /\ UNCHANGED <<suggestions, loop_vars>>

Next ==
    \/ \E u \in TypedInputs : ChooseSuggestion(u)
    \/ \E u \in TypedInputs, c \in Classifications : ClassifyInput(u, c)
    \/ \E l \in SuggestionLists : SuggestPrompts(l)
    \/ \E s \in Stories : GenerateStory(s)
    \/ \E t \in JudgeTexts : JudgeStep(t)
    \/ \E s \in Stories : ReviseStep(s)
    \/ PrintStory
    \/ CallFails

Spec == Init /\ [][Next]_vars


\* ------------------------------------------- the parser on its own inputs

ParserAlphabet == {"a", " ", "\n", "(", ")", ":", "4", "5"}

RawTexts == UNION {[1..n -> ParserAlphabet] : n \in 0..MaxLen}

FreeAlphabet == {"x", "(", ")", "4", ":", "-"}

FreeTexts == UNION {[1..n -> FreeAlphabet] : n \in 0..MaxFree}

\* Score tokens in range,
GoodTokens == {<<"2">>, <<"4">>}

\* and out of range: 0, 5, 14 and a word.
BadTokens == {<<"0">>, <<"5">>, <<"1", "4">>, <<"f", "o", "u", "r">>}

WrittenEntries ==
    [shape : {"inline", "twoline"}, cat : {<<"a">>},
     tok : GoodTokens \cup BadTokens, reason : FreeTexts]
    \cup [shape : {"raw"}, cat : {<<>>}, tok : {<<>>}, reason : RawTexts]

\* The text of a written entry.
Render(w) ==
    CASE w.shape = "inline"    -> InlineBlock(w.cat, w.tok, w.reason)
      [] w.shape = "twoline"   -> TwoLineBlock(w.cat, w.tok, w.reason)
      [] w.shape = "scoreonly" -> ScoreLine(w.cat, w.tok)
      [] OTHER                 -> w.reason

InitParse ==
    /\ pc = "parse_call"
    /\ written \in WrittenEntries
    /\ judge_feedback = Render(written)
    /\ suggestions = <<>>
    /\ user_input = Unbound
    /\ story = Unbound
    /\ generated_stories = <<>>
    /\ iteration = 0
    /\ parsed_feedback = <<>>
    /\ low = <<>>
    /\ revised_story = Unbound
    /\ request = NoRequest
    /\ judge_request = NoJudgeRequest
    /\ last_call = "none"
    /\ judge_calls = 0
    /\ revise_calls = 0
    /\ printed = <<>>

\* ParseStep with the entries put into the result of the call before.
ParseStepMerging ==
    /\ pc = "parse_call"
    /\ LET res == parse_entries([raised |-> FALSE, feedback |-> parsed_feedback],
                                re_split_blank(strip(judge_feedback)))
       IN  /\ parsed_feedback' = res.feedback
           /\ pc' = IF res.raised THEN "fault" ELSE "parse_return"
    /\ UNCHANGED <<suggestions, user_input, story, generated_stories, iteration,
                   judge_feedback, low, revised_story, request, judge_request,
                   last_call, judge_calls, revise_calls, printed, written>>

\* parsed_feedback = parse_judge_feedback(judge_feedback)
ParseStep ==
    /\ pc = "parse_call"
    /\ LET res == parse_judge_feedback(judge_feedback)
       IN  /\ parsed_feedback' = res.feedback
           /\ pc' = IF res.raised THEN "fault" ELSE "parse_return"
    /\ UNCHANGED <<suggestions, user_input, story, generated_stories, iteration,
                   judge_feedback, low, revised_story, request, judge_request,
                   last_call, judge_calls, revise_calls, printed, written>>

NextParse == ParseStep

SpecParse == InitParse /\ [][NextParse]_vars


\* ------------------------------------- the parser on texts of several entries

\* The most entries a judge text is written from.
MaxEntries == 2

Entry(shape, cat, tok, reason) ==
    [shape |-> shape, cat |-> cat, tok |-> tok, reason |-> reason]

\* Reasoning texts: plain, with a colon, with a dash, and with a parenthesised
\* digit in it.
Ok == <<"o", "k">>
ColonReason == <<"x", ":", " ", "y">>
DashReason == <<"x", "-", "y">>
ParenReason == <<"(", "4", ")", "x">>

\* Entries in both shapes under the labels a and b,
PlainEntries ==
    {Entry(s, c, t, r) : s \in {"inline", "twoline"}, c \in {<<"a">>, <<"b">>},
                         t \in GoodTokens, r \in {Ok, ParenReason}}

\* with an empty reasoning or a separator character in it,
EdgeEntries ==
    {Entry(s, <<"a">>, <<"2">>, r) :
        s \in {"inline", "twoline"}, r \in {<<>>, ColonReason, DashReason}}

\* under labels that differ from a in case, in inner or in surrounding
\* whitespace,
DriftLabels == {<<"A">>, <<"a", " ", "b">>, <<"a", " ", " ", "b">>, <<"a", " ">>}

DriftEntries ==
    {Entry("inline", c, <<"4">>, Ok) : c \in DriftLabels}
    \cup {Entry("twoline", <<"a", " ">>, <<"4">>, Ok)}

\* with the score line alone,
ScoreOnlyEntries ==
    {Entry("scoreonly", <<"a">>, <<"3">>, <<>>),
     Entry("scoreonly", <<"b">>, <<"4">>, <<>>)}

\* and blocks of neither shape: prose, an inline entry without reasoning, and
\* a line of whitespace.
UnmatchedBlocks ==
    {Entry("raw", <<>>, <<>>, r) : r \in {<<"x">>, LowBare, <<" ">>}}

MixEntries ==
    PlainEntries \cup EdgeEntries \cup DriftEntries \cup ScoreOnlyEntries
    \cup UnmatchedBlocks

\* The entries' texts with a blank line between them.
RECURSIVE RenderAll(_)
RenderAll(ws) ==
    IF ws = <<>> THEN <<>>
    ELSE IF Len(ws) = 1 THEN Render(ws[1])
    ELSE Render(ws[1]) \o BlankLine \o RenderAll(Tail(ws))

InitMix ==
    /\ pc = "parse_call"
    /\ written \in UNION {[1..n -> MixEntries] : n \in 0..MaxEntries}
    /\ judge_feedback = RenderAll(written)
    /\ suggestions = <<>>
    /\ user_input = Unbound
    /\ story = Unbound
    /\ generated_stories = <<>>
    /\ iteration = 0
    /\ parsed_feedback = <<>>
    /\ low = <<>>
    /\ revised_story = Unbound
    /\ request = NoRequest
    /\ judge_request = NoJudgeRequest
    /\ last_call = "none"
    /\ judge_calls = 0
    /\ revise_calls = 0
    /\ printed = <<>>

\* parsed_feedback = parse_judge_feedback(judge_feedback)
ParseMixStep ==
    /\ pc = "parse_call"
    /\ LET res == parse_judge_feedback(judge_feedback)
       IN  /\ parsed_feedback' = res.feedback
           /\ pc' = IF res.raised THEN "fault" ELSE "parse_return"
    /\ UNCHANGED <<suggestions, user_input, story, generated_stories, iteration,
                   judge_feedback, low, revised_story, request, judge_request,
                   last_call, judge_calls, revise_calls, printed, written>>

NextMix == ParseMixStep

SpecMix == InitMix /\ [][NextMix]_vars


\* ------------------------------------------------ the parser called again

\* The texts of the calls: nothing, or one block.
CallTexts == JudgeBlocks \cup {<<>>}

\* No call remembered yet.
NoCall == [text |-> <<>>, result |-> <<>>, made |-> FALSE]

\* The first call of a run of calls; main's story is bound to some story.
InitCalls ==
    /\ pc = "parse_call"
    /\ judge_feedback \in CallTexts
    /\ story \in Stories
    /\ written = NoCall
    /\ suggestions = <<>>
    /\ user_input = Unbound
    /\ generated_stories = <<>>
    /\ iteration = 0
    /\ parsed_feedback = <<>>
    /\ low = <<>>
    /\ revised_story = Unbound
    /\ request = NoRequest
    /\ judge_request = NoJudgeRequest
    /\ last_call = "none"
    /\ judge_calls = 0
    /\ revise_calls = 0
    /\ printed = <<>>

\* After a call returned the caller calls again with the text t, the story
\* now being s; parsed_feedback still holds the result of the call before.
\* written remembers one earlier call, its text and its result.
CallAgain(t, s, remember) ==
    /\ pc = "parse_return"
    /\ judge_feedback' = t
    /\ story' = s
    /\ written' = IF remember
                  THEN [text |-> judge_feedback, result |-> parsed_feedback,
                        made |-> TRUE]
                  ELSE written
    /\ pc' = "parse_call"
    /\ UNCHANGED <<suggestions, user_input, generated_stories, iteration,
                   parsed_feedback, low, revised_story, request, judge_request,
                   last_call, judge_calls, revise_calls, printed>>

NextCalls ==
    \/ ParseStep
    \/ \E t \in CallTexts, s \in Stories, remember \in BOOLEAN : CallAgain(t, s, remember)

SpecCalls == InitCalls /\ [][NextCalls]_vars


\* ------------------------------------- story_editor on what the parser returns

\* The most blocks of a text given to the parser before story_editor.
MaxOrder == 3

\* The label a scored 2, 4 and 3, b scored 2 and 4, A scored 4, and prose.
OrderEntries ==
    {Entry("inline", <<"a">>, <<"2">>, Ok),
     Entry("twoline", <<"a">>, <<"4">>, Ok),
     Entry("scoreonly", <<"a">>, <<"3">>, <<>>),
     Entry("twoline", <<"b">>, <<"2">>, Ok),
     Entry("inline", <<"b">>, <<"4">>, Ok),
     Entry("inline", <<"A">>, <<"4">>, Ok),
     Entry("raw", <<>>, <<>>, <<"x">>)}

InitEditor ==
    /\ pc = "parse_call"
    /\ written \in UNION {[1..n -> OrderEntries] : n \in 0..MaxOrder}
    /\ judge_feedback = RenderAll(written)
    /\ suggestions = <<>>
    /\ user_input = "moon"
    /\ story = "s1"
    /\ generated_stories = <<"s1">>
    /\ iteration = 1
    /\ parsed_feedback = <<>>
    /\ low = <<>>
    /\ revised_story = Unbound
    /\ request = NoRequest
    /\ judge_request = NoJudgeRequest
    /\ last_call = "none"
    /\ judge_calls = 0
    /\ revise_calls = 0
    /\ printed = <<>>

\* revised_story = story_editor(user_input, story, parsed_feedback), called
\* whatever parsed_feedback holds; the completion returns s.
EditorStep(s) ==
    /\ pc = "parse_return"
    /\ IF editor_returns_early(parsed_feedback)
       THEN /\ revised_story' = story
            /\ UNCHANGED <<request, revise_calls, last_call>>
       ELSE /\ request' = user_msg(user_input, story, parsed_feedback)
            /\ revise_calls' = revise_calls + 1
            /\ last_call' = "revise"
            /\ revised_story' = s
    /\ pc' = "edited"
    /\ UNCHANGED <<suggestions, user_input, story, generated_stories, iteration,
                   judge_feedback, parsed_feedback, low, judge_request,
                   judge_calls, printed, written>>

NextEditor ==
    \/ ParseMixStep
    \/ \E s \in Stories : EditorStep(s)

SpecEditor == InitEditor /\ [][NextEditor]_vars


\* ------------------------------------ the parser on entries of several lines

\* The most lines after the score line of an entry.
MaxLines == 3

\* Lines that may follow the score line: a note, Reasoning and Justification
\* lines in several letter cases, and a Reasoning line with nothing after
\* the colon.
NoteLine == <<"n", "b">>
ReasoningX == <<"R", "e", "a", "s", "o", "n", "i", "n", "g", ":", " ", "x">>
ReasoningUpperY == <<"R", "E", "A", "S", "O", "N", "I", "N", "G", ":", "y">>
JustificationLowerZ ==
    <<"j", "u", "s", "t", "i", "f", "i", "c", "a", "t", "i", "o", "n", ":", " ", "z">>
ReasoningEmpty == <<"R", "e", "a", "s", "o", "n", "i", "n", "g", ":">>

FollowLines ==
    {NoteLine, ReasoningX, ReasoningUpperY, JustificationLowerZ, ReasoningEmpty}

\* The score line "a: 2" and the lines ls under it.
RECURSIVE EntryOfLines(_)
EntryOfLines(ls) ==
    IF ls = <<>> THEN ScoreLine(<<"a">>, <<"2">>)
    ELSE EntryOfLines(SubSeq(ls, 1, Len(ls) - 1)) \o <<"\n">> \o ls[Len(ls)]

InitLines ==
    /\ pc = "parse_call"
    /\ written \in UNION {[1..n -> FollowLines] : n \in 0..MaxLines}
    /\ judge_feedback = EntryOfLines(written)
    /\ suggestions = <<>>
    /\ user_input = Unbound
    /\ story = Unbound
    /\ generated_stories = <<>>
    /\ iteration = 0
    /\ parsed_feedback = <<>>
    /\ low = <<>>
    /\ revised_story = Unbound
    /\ request = NoRequest
    /\ judge_request = NoJudgeRequest
    /\ last_call = "none"
    /\ judge_calls = 0
    /\ revise_calls = 0
    /\ printed = <<>>

\* parsed_feedback = parse_judge_feedback(judge_feedback)
ParseLinesStep ==
    /\ pc = "parse_call"
    /\ LET res == parse_judge_feedback(judge_feedback)
       IN  /\ parsed_feedback' = res.feedback
           /\ pc' = IF res.raised THEN "fault" ELSE "parse_return"
    /\ UNCHANGED <<suggestions, user_input, story, generated_stories, iteration,
                   judge_feedback, low, revised_story, request, judge_request,
                   last_call, judge_calls, revise_calls, printed, written>>

NextLines == ParseLinesStep

SpecLines == InitLines /\ [][NextLines]_vars


\* ------------------------------------------------------------- properties

\* The judge returned in the current pass of the loop: judge_feedback,
\* parsed_feedback and low are those of this pass.
AfterJudge == pc \in {"print", "revise", "done"}

Stopped == pc \in {"print", "done"}

AllFour(feedback) == \A i \in 1..Len(feedback) : int(feedback[i].score) = 4

SomeLow(feedback) == \E i \in 1..Len(feedback) : int(feedback[i].score) < 4

\* C1: after a judge call the loop stops exactly when every entry of the
\* CritiqueSet parsed from that judge text scores 4 (also when it has no
\* entry); otherwise it goes on to revise.
ConvergenceRule ==
    AfterJudge =>
        LET c == parse_judge_feedback(judge_feedback).feedback
        IN  /\ parsed_feedback = c
            /\ Stopped <=> AllFour(c)
            /\ pc = "revise" <=> ~AllFour(c)

\* The loop stopped on a CritiqueSet that has entries, all of them 4.
ConvergedOnFours == pc = "print" /\ parsed_feedback # <<>> /\ AllFour(parsed_feedback)

\* C2: a judge text that parses to the empty CritiqueSet ends the loop in that
\* pass: no revision is asked for and the story is printed as it was.
EmptyCritiqueConverges ==
    /\ [](( /\ AfterJudge
            /\ parse_judge_feedback(judge_feedback).feedback = <<>> )
          => ( /\ Stopped
               /\ parsed_feedback = <<>>
               /\ (pc = "done" => printed = <<story>>) ))
    /\ [][ ( (pc = "judge" /\ pc' = "print")
               => UNCHANGED <<story, revise_calls, request, iteration>> )
           /\ ( pc = "print"
               => ( /\ pc' = "done"
                    /\ printed' = <<story>>
                    /\ UNCHANGED <<story, revise_calls, request, iteration>> ) ) ]_vars

\* The run ended on a judge text whose two blocks match neither shape.
ConvergedOnUnparsed ==
    /\ pc = "done"
    /\ judge_feedback = OutOfRange \o BlankLine \o LowBare
    /\ parsed_feedback = <<>>
    /\ printed = <<story>>
    /\ revise_calls = 0

\* C3: when the parsed CritiqueSet has an entry below 4 the loop goes on to
\* revise with the story as it is; the revision (when the call returns) asks
\* for one completion, makes its text the story, adds 1 to the iteration
\* counter and returns to the judge.
LowEntryRevises ==
    [][ /\ (pc = "judge" /\ pc' # "fault" /\ SomeLow(parsed_feedback'))
           => /\ pc' = "revise"
              /\ UNCHANGED <<story, iteration, revise_calls>>
        /\ (pc = "revise" /\ pc' # "fault")
           => /\ revise_calls' = revise_calls + 1
              /\ last_call' = "revise"
              /\ revised_story' \in Stories
              /\ story' = revised_story'
              /\ iteration' = iteration + 1
              /\ pc' = "judge" ]_vars

\* A revision replaced the generated story by another text.
StoryRevised ==
    /\ pc = "judge" /\ last_call = "revise"
    /\ iteration = 2 /\ revise_calls = 1
    /\ story # generated_stories[1]

\* C4: judge and revise calls alternate, starting and ending with a judge
\* call: a judge call follows the generation or a revise call, a revise call
\* follows a judge call, and when the loop has ended there is one more judge
\* call than revise calls.
JudgeReviseAlternate ==
    [][ /\ judge_calls' # judge_calls
           => /\ judge_calls' = judge_calls + 1
              /\ revise_calls' = revise_calls
              /\ last_call \in {"generate", "revise"}
        /\ revise_calls' # revise_calls
           => /\ revise_calls' = revise_calls + 1
              /\ judge_calls' = judge_calls
              /\ last_call = "judge"
        /\ pc' \in {"print", "done"} => judge_calls' = revise_calls' + 1 ]_vars

\* A run of three judge calls and two revise calls ended.
ThreeJudgesTwoRevisions == pc = "done" /\ judge_calls = 3 /\ revise_calls = 2

\* C5: nothing but a CritiqueSet with no entry below 4 ends the loop: while
\* the judge text has a low entry the next revision and the next judge call
\* are possible whatever the iteration counter is, and the loop has stopped
\* only on a CritiqueSet with no low entry.
NoIterationCap ==
    /\ pc = "revise" =>
          /\ low # <<>>
          /\ iteration < MaxIter => ENABLED (\E s \in Stories : ReviseStep(s))
    /\ pc = "judge" =>
          /\ iteration \in 1..MaxIter
          /\ ENABLED (\E t \in JudgeTexts : JudgeStep(t))
    /\ Stopped => low = <<>>

\* The loop is still revising when the counter is at the model's bound.
StillRevisingAtBound == pc = "revise" /\ iteration = MaxIter /\ revise_calls = MaxIter - 1

\* The judge texts made of blocks scored 4 and of at least one block that
\* states a score of 2 in a form the parser recognises as neither shape.
DroppedLowTexts ==
    UNION {TextsOf({FourInline, LowBare}, n) : n \in 1..MaxBlocks}
        \ UNION {TextsOf({FourInline}, n) : n \in 1..MaxBlocks}

\* C6: a judge text that states a low score in a block matching neither
\* shape, beside entries that all score 4, makes the loop stop: the block
\* leaves no entry in the CritiqueSet.
DroppedLowConverges ==
    (AfterJudge /\ judge_feedback \in DroppedLowTexts) =>
        /\ Stopped
        /\ \A i \in 1..Len(parsed_feedback) :
              parsed_feedback[i].cat = <<"a">> /\ parsed_feedback[i].score = "4"

\* The run ended on the text "a (4): ok", blank line, "b (2)".
ConvergedDespiteLow ==
    /\ pc = "done"
    /\ judge_feedback = FourInline \o BlankLine \o LowBare
    /\ Len(parsed_feedback) = 1
    /\ printed = <<story>>

\* "<category>: score <n> because <reasoning>" for an entry.
IssueText(e) ==
    e.cat \o <<":", " ", "s", "c", "o", "r", "e", " ", e.score>>
          \o <<" ", "b", "e", "c", "a", "u", "s", "e", " ">> \o e.reasoning

\* The lines of the suggestions of the request last sent.
RequestLines == splitlines(request.suggestions)

\* C7 as stated: every line of the revision request is exactly
\* "<category>: score <n> because <reasoning>" for an entry below 4.
IssueLinesExact ==
    last_call = "revise" =>
        /\ RequestLines # <<>>
        /\ \A k \in 1..Len(RequestLines) :
              \E i \in 1..Len(parsed_feedback) :
                  /\ int(parsed_feedback[i].score) < 4
                  /\ RequestLines[k] = IssueText(parsed_feedback[i])

\* C7 as amended: every line of the revision request is "- " followed by
\* "<category>: score <n> because <reasoning>" for an entry below 4, the lines
\* joined by single newlines.
IssueLinesBulleted ==
    last_call = "revise" =>
        /\ RequestLines # <<>>
        /\ request.suggestions = join_lines(RequestLines)
        /\ \A k \in 1..Len(RequestLines) :
              \E i \in 1..Len(parsed_feedback) :
                  /\ int(parsed_feedback[i].score) < 4
                  /\ RequestLines[k] = <<"-", " ">> \o IssueText(parsed_feedback[i])

\* A request of two issue lines was sent.
TwoIssueLines == last_call = "revise" /\ Len(RequestLines) = 2

EndsWith(l, suffix) ==
    Len(l) >= Len(suffix) /\ SubSeq(l, Len(l) - Len(suffix) + 1, Len(l)) = suffix

\* C8: the request sent by a revise call has one line for every entry below 4
\* and none for an entry of 4, in the order of the CritiqueSet, and goes with
\* the topic and the story that was judged.
RequestCoversLowEntries ==
    [][ revise_calls' # revise_calls =>
          LET lowE == SelectSeq(parsed_feedback, LAMBDA e : int(e.score) < 4)
              ls   == splitlines(request'.suggestions)
          IN  /\ Len(ls) = Len(lowE)
              /\ \A k \in 1..Len(lowE) : EndsWith(ls[k], IssueText(lowE[k]))
              /\ request'.prompt = user_input
              /\ request'.story = story ]_vars

\* A request was sent for a CritiqueSet whose first entry scores 4 and whose
\* second scores 2.
RequestSkipsFour ==
    /\ last_call = "revise"
    /\ Len(parsed_feedback) = 2
    /\ parsed_feedback[1].score = "4" /\ parsed_feedback[2].score = "2"
    /\ Len(RequestLines) = 1

\* C9: parse_judge_feedback raises for no input: every call returns.
ParseNeverRaises == pc \in {"parse_call", "parse_return"}

\* The parser returned the empty CritiqueSet for a text of whitespace only.
ParsedWhitespace ==
    /\ pc = "parse_return"
    /\ written.shape = "raw"
    /\ Len(judge_feedback) = MaxLen /\ strip(judge_feedback) = <<>>
    /\ parsed_feedback = <<>>

\* C10: an entry written in either shape with a score token that is none of
\* 1, 2, 3, 4 leaves no entry in the CritiqueSet.
BadScoreDropped ==
    (pc = "parse_return" /\ written.shape \in {"inline", "twoline"}
        /\ written.tok \in BadTokens)
    => parsed_feedback = <<>>

\* What the text of a written entry says: its label, score and reasoning.
Stated(w) == [cat |-> w.cat, score |-> w.tok[1], reasoning |-> w.reason]

IsShaped(w) == w.shape \in {"inline", "twoline"}

DistinctLabels(ws) ==
    \A i, j \in 1..Len(ws) : ws[i].cat = ws[j].cat => i = j

\* C11: a text of inline and two-line entries in any order, with blank lines
\* between them, parses to every entry under its own category with its own
\* score and reasoning, whatever the reasoning text; a two-line entry gets
\* the category and score of its first line.
MixedEntriesRecorded ==
    ( /\ pc = "parse_return"
      /\ \A i \in 1..Len(written) :
            /\ IsShaped(written[i])
            /\ written[i].cat \in {<<"a">>, <<"b">>}
            /\ written[i].reason # <<>>
      /\ DistinctLabels(written) )
    => parsed_feedback = [i \in 1..Len(written) |-> Stated(written[i])]

\* C12: writing the entries of a CritiqueSet (distinct keys, scores 1 to 4,
\* reasoning possibly empty) all in the inline shape, or all in the two-line
\* shape, with blank lines between them, and parsing the text gives the same
\* keys, scores and reasoning back.
RoundTrip ==
    ( /\ pc = "parse_return"
      /\ \E shape \in {"inline", "twoline"} :
            \A i \in 1..Len(written) : written[i].shape = shape
      /\ \A i \in 1..Len(written) : written[i].cat \in {<<"a">>, <<"b">>}
      /\ DistinctLabels(written) )
    => parsed_feedback = [i \in 1..Len(written) |-> Stated(written[i])]

\* C13: the reasoning of an inline entry is all the text after the
\* parenthesised score and the separator, to the end of the block: a colon or
\* a dash in the reasoning neither cuts it short nor moves the category.
InlineReasoningWhole ==
    ( /\ pc = "parse_return"
      /\ written.shape = "inline"
      /\ written.tok \in GoodTokens
      /\ written.reason # <<>> )
    => parsed_feedback = <<Stated(written)>>

\* An inline entry parsed with a colon and a dash in the middle of its
\* reasoning.
ColonAndDashKept ==
    /\ pc = "parse_return"
    /\ written.shape = "inline" /\ written.tok = <<"2">>
    /\ Len(written.reason) = MaxFree
    /\ written.reason[2] = ":" /\ written.reason[3] = "-"
    /\ Len(parsed_feedback) = 1
    /\ parsed_feedback[1].cat = <<"a">>
    /\ parsed_feedback[1].reasoning = written.reason

\* The CritiqueSet of every block parsed on its own,
ParsedAlone == [w \in MixEntries |-> parse_judge_feedback(Render(w)).feedback]

\* and of the i-th written block.
Alone(i) == ParsedAlone[written[i]]

\* The written blocks that record the label of block i.
SameLabel(i) ==
    {j \in 1..Len(written) : Alone(j) # <<>> /\ Alone(j)[1].cat = Alone(i)[1].cat}

\* C14: a label recorded by two or more entries of one text has exactly one
\* entry in the CritiqueSet, with the score and reasoning of the last of them.
LastDuplicateWins ==
    pc = "parse_return" =>
        \A i \in 1..Len(written) :
            (Alone(i) # <<>> /\ Cardinality(SameLabel(i)) >= 2) =>
                LET hits == {k \in 1..Len(parsed_feedback) :
                                parsed_feedback[k].cat = Alone(i)[1].cat}
                    last == Max(SameLabel(i))
                IN  /\ Cardinality(hits) = 1
                    /\ \A k \in hits : parsed_feedback[k] = Alone(last)[1]

\* The label a scored 2 and then 4: one entry, score 4, nothing left to revise.
TwoThenFour ==
    /\ pc = "parse_return"
    /\ written = <<Entry("inline", <<"a">>, <<"2">>, Ok),
                   Entry("twoline", <<"a">>, <<"4">>, Ok)>>
    /\ parsed_feedback = <<[cat |-> <<"a">>, score |-> "4", reasoning |-> Ok]>>
    /\ Converges(low_entries(parsed_feedback))

\* Judge texts whose only matching block is the score line "a: 3", with no
\* Justification or Reasoning line.
ScoreOnlyTexts ==
    {LowScoreOnly,
     LowScoreOnly \o BlankLine \o LowBare,
     OutOfRange \o BlankLine \o LowScoreOnly}

Combine(acc, one) ==
    IF one = <<>> THEN acc
    ELSE IF \E k \in 1..Len(acc) : acc[k].cat = one[1].cat
    THEN [k \in 1..Len(acc) |-> IF acc[k].cat = one[1].cat THEN one[1] ELSE acc[k]]
    ELSE acc \o one

\* The results of the first n written blocks, each parsed alone, combined in
\* order.
RECURSIVE CombinedAlone(_)
CombinedAlone(n) == IF n = 0 THEN <<>> ELSE Combine(CombinedAlone(n - 1), Alone(n))

RecordsNothing(w) == ParsedAlone[w] = <<>>

RecordsOne(w) == ~RecordsNothing(w)

\* C16: blocks are parsed one by one: the text is split on runs of blank
\* lines, a block of neither shape is dropped without an error, the
\* CritiqueSet of the text is that of its blocks parsed alone and combined in
\* order, and it is the same with the blocks that record nothing taken out.
BlocksIndependent ==
    /\ pc # "fault"
    /\ pc = "parse_return" =>
        /\ parsed_feedback = CombinedAlone(Len(written))
        /\ parsed_feedback
               = parse_judge_feedback(RenderAll(SelectSeq(written, RecordsOne))).feedback

\* A block that records nothing, then an entry that was recorded all the same.
UnmatchedDropped ==
    /\ pc = "parse_return"
    /\ Len(written) = MaxEntries
    /\ RecordsNothing(written[1])
    /\ written[MaxEntries] = Entry("twoline", <<"b">>, <<"2">>, Ok)
    /\ parsed_feedback = <<Stated(written[MaxEntries])>>

\* An entry in one of the two shapes (the score line alone included) with no
\* parenthesised digit in its reasoning.
IsLabelled(w) ==
    /\ w.shape \in {"inline", "twoline", "scoreonly"}
    /\ w.reason # ParenReason

AllLabelled == \A i \in 1..Len(written) : IsLabelled(written[i])

Keys(feedback) == {feedback[k].cat : k \in 1..Len(feedback)}

\* C17 as stated: every entry is keyed by the label exactly as written, so
\* labels that differ in case, in surrounding or inner whitespace or in any
\* character give distinct entries.
KeysExact ==
    (pc = "parse_return" /\ AllLabelled) =>
        LET labels == {written[i].cat : i \in 1..Len(written)}
        IN  /\ Keys(parsed_feedback) = labels
            /\ Len(parsed_feedback) = Cardinality(labels)

\* C17: every entry is keyed by the label with its surrounding whitespace
\* removed and nothing else changed: labels that differ in case, in inner
\* whitespace or in a letter give distinct entries, labels that differ only
\* in surrounding whitespace give one.
KeysStripped ==
    (pc = "parse_return" /\ AllLabelled) =>
        LET labels == {strip(written[i].cat) : i \in 1..Len(written)}
        IN  /\ Keys(parsed_feedback) = labels
            /\ Len(parsed_feedback) = Cardinality(labels)

\* The label "a " of a two-line entry recorded under a, next to the label A
\* recorded as a key of its own.
StrippedAndCased ==
    /\ pc = "parse_return"
    /\ Len(written) = 2
    /\ written[1] = Entry("twoline", <<"a", " ">>, <<"4">>, Ok)
    /\ written[2].cat = <<"A">>
    /\ Len(parsed_feedback) = 2
    /\ parsed_feedback[1].cat = <<"a">> /\ parsed_feedback[2].cat = <<"A">>

\* C18: every entry the parser returns has a score that is one of the digits
\* 1, 2, 3, 4, so int() of it is defined and the test score < 4 has a value.
ScoresInRange ==
    \A k \in 1..Len(parsed_feedback) :
        /\ parsed_feedback[k].score \in {"1", "2", "3", "4"}
        /\ int(parsed_feedback[k].score) \in 1..4
        /\ IsLow(parsed_feedback[k]) \in BOOLEAN

\* A block with the token 5 on its first line was recorded all the same, with
\* a score in range taken from further on.
RecordedInRange ==
    /\ pc = "parse_return"
    /\ written.shape = "twoline" /\ written.tok = <<"5">>
    /\ Len(parsed_feedback) = 1
    /\ parsed_feedback[1].score = "4"
    /\ ~IsLow(parsed_feedback[1])

\* C19: the CritiqueSet of a pass is built from the judge text of that pass
\* alone: whether the loop stops, and what the request to the reviser lists,
\* are those of that text, whatever was parsed, left low or requested in the
\* pass before.
FreshEachIteration ==
    /\ [][ (pc = "judge" /\ pc' \in {"print", "revise"}) =>
             LET c == ParsedJudgeTexts[judge_feedback'].feedback
             IN  /\ parsed_feedback' = c
                 /\ low' = SelectSeq(c, LAMBDA e : int(e.score) < 4)
                 /\ (pc' = "print") <=> AllFour(c) ]_vars
    /\ [][ revise_calls' # revise_calls =>
             LET c    == ParsedJudgeTexts[judge_feedback].feedback
                 lowE == SelectSeq(c, LAMBDA e : int(e.score) < 4)
                 ls   == splitlines(request'.suggestions)
             IN  /\ Len(ls) = Len(lowE)
                 /\ \A k \in 1..Len(lowE) : EndsWith(ls[k], IssueText(lowE[k])) ]_vars

\* The loop stopped on a text that scores a alone, after a pass whose request
\* listed b as below 4.
StoppedAfterLowGone ==
    /\ pc = "print"
    /\ iteration = 2
    /\ judge_feedback = FourInline
    /\ Len(RequestLines) = 1 /\ RequestLines[1][3] = "b"
    /\ parsed_feedback = <<[cat |-> <<"a">>, score |-> "4", reasoning |-> Ok]>>
    /\ low = <<>>

\* C20: a failed call to generate, judge or revise is neither caught nor made
\* again: the run stops there, with no later call and nothing printed.  Each
\* pass makes at most one judge call and one reviser call, and the story is
\* generated in one step.
FaultEndsRun ==
    /\ [](pc = "fault" => printed = <<>>)
    /\ [](revise_calls <= judge_calls /\ judge_calls <= iteration)
    /\ [][ /\ pc # "fault"
           /\ pc = "generate" => pc' \in {"judge", "fault"} ]_vars

\* The reviser failed in the second pass: two judge calls, two reviser calls,
\* nothing printed.
ReviserFailed ==
    /\ pc = "fault"
    /\ last_call = "revise"
    /\ iteration = 2 /\ judge_calls = 2 /\ revise_calls = 2
    /\ printed = <<>>

ReviserGetsJudgedStory ==
    /\ []( judge_calls > 0 => judge_request.prompt = user_input )
    /\ []( last_call = "judge" => judge_request.story = story )
    /\ []( last_call = "revise" =>
             /\ request.story = judge_request.story
             /\ request.prompt = user_input
             /\ parsed_feedback = ParsedJudgeTexts[judge_feedback].feedback
             /\ request.suggestions = join_lines(collect_issues(parsed_feedback)) )
    /\ [][ /\ (judge_calls' # judge_calls) =>
                  (story' = story /\ user_input' = user_input)
           /\ (pc # "input") => (user_input' = user_input) ]_vars

\* The second revision: the judge and the reviser were given s2, the reviser
\* returned s1.
SecondRevisionOfJudged ==
    /\ pc = "judge"
    /\ last_call = "revise"
    /\ iteration = 3
    /\ judge_request.story = "s2" /\ request.story = "s2"
    /\ story = "s1"

\* C23: the story printed is the story given to the last judge call, whose
\* CritiqueSet had no entry below 4: no revised story is printed unjudged,
\* and once the loop has stopped no judge or reviser call is made.
PrintedWasJudged ==
    /\ []( pc \in {"print", "done"} =>
             /\ last_call = "judge"
             /\ story = judge_request.story
             /\ parsed_feedback = ParsedJudgeTexts[judge_feedback].feedback
             /\ \A k \in 1..Len(parsed_feedback) : int(parsed_feedback[k].score) = 4 )
    /\ []( printed # <<>> => (pc = "done" /\ printed = <<judge_request.story>>) )
    /\ [][ (pc \in {"print", "done"}) =>
             ( judge_calls' = judge_calls /\ revise_calls' = revise_calls
               /\ last_call' = last_call ) ]_vars

\* A revised story was judged, found good and printed.
RevisedStoryPrinted ==
    /\ pc = "done"
    /\ iteration = 2 /\ judge_calls = 2 /\ revise_calls = 1
    /\ generated_stories = <<"s1">>
    /\ printed = <<"s2">>
    /\ parsed_feedback # <<>>

\* A parenthesised digit 1 to 4 at p in the joined block b, with text before
\* it and text after it.
ParenScoreAt(b, p) ==
    /\ 2 <= p /\ p + 3 <= Len(b)
    /\ b[p] = "(" /\ b[p + 1] \in {"1", "2", "3", "4"} /\ b[p + 2] = ")"

\* The block of a text that is one block: stripped, its lines joined by
\* spaces.
JoinedBlock == replace_newlines(strip(judge_feedback))

\* C24: the inline shape is tried first, on the whole block with its lines
\* joined: a block that holds a parenthesised digit 1 to 4 with text before
\* and after it is recorded with the text before the first such parenthesis
\* as category and that digit as score, whatever its first line is.
InlineTakesPrecedence ==
    LET b  == JoinedBlock
        ps == {q \in 2..Len(b) - 3 : ParenScoreAt(b, q)}
    IN  ( /\ pc = "parse_return"
          /\ Len(re_split_blank(strip(judge_feedback))) = 1
          /\ ps # {} )
        => /\ Len(parsed_feedback) = 1
           /\ parsed_feedback[1].cat = strip(SubSeq(b, 1, Min(ps) - 1))
           /\ parsed_feedback[1].score = b[Min(ps) + 1]

\* A two-line entry "a: 2" recorded under the key that runs into its
\* Reasoning line, with the digit found there as score.
TwoLineTakenInline ==
    /\ pc = "parse_return"
    /\ written.shape = "twoline" /\ written.tok = <<"2">>
    /\ Len(parsed_feedback) = 1
    /\ parsed_feedback[1].score = "4"
    /\ Len(parsed_feedback[1].cat) > Len(ScoreLine(written.cat, written.tok))

\* A sequence without the repetitions of its elements: each stays where it
\* first stood.
RECURSIVE FirstAppearance(_)
FirstAppearance(q) ==
    IF q = <<>> THEN <<>>
    ELSE LET front == FirstAppearance(SubSeq(q, 1, Len(q) - 1))
             x     == q[Len(q)]
         IN  IF \E i \in 1..Len(front) : front[i] = x THEN front
             ELSE Append(front, x)

\* The written blocks that are entries, in the order of the text.
WrittenRecords == SelectSeq(written, LAMBDA w : w.shape # "raw")

\* C25: the CritiqueSet lists the labels in the order of their first
\* appearance in the text; an entry that overwrites an earlier one of its
\* label stays at the place of the first, and the issue lines of the request
\* follow that order.
FirstAppearanceOrder ==
    pc \in {"parse_return", "edited"} =>
        LET ws    == WrittenRecords
            order == FirstAppearance([i \in 1..Len(ws) |-> ws[i].cat])
            lowE  == SelectSeq(parsed_feedback, LAMBDA e : int(e.score) < 4)
        IN  /\ [k \in 1..Len(parsed_feedback) |-> parsed_feedback[k].cat] = order
            /\ \A k \in 1..Len(parsed_feedback) :
                  parsed_feedback[k]
                      = Stated(ws[Max({i \in 1..Len(ws) : ws[i].cat = order[k]})])
            /\ (pc = "edited" /\ revise_calls = 1) =>
                  /\ Len(RequestLines) = Len(lowE)
                  /\ \A k \in 1..Len(lowE) :
                        EndsWith(RequestLines[k], IssueText(lowE[k]))

\* a, then b, then a again with another score: a stays first, with the later
\* score, and its issue line comes before that of b.
OverwrittenStaysFirst ==
    /\ pc = "edited"
    /\ written = <<Entry("inline", <<"a">>, <<"2">>, Ok),
                   Entry("twoline", <<"b">>, <<"2">>, Ok),
                   Entry("scoreonly", <<"a">>, <<"3">>, <<>>)>>
    /\ Len(parsed_feedback) = 2
    /\ parsed_feedback[1] = [cat |-> <<"a">>, score |-> "3", reasoning |-> <<>>]
    /\ Len(RequestLines) = 2
    /\ RequestLines[1][3] = "a" /\ RequestLines[2][3] = "b"

NoneBelowFour(feedback) ==
    \A k \in 1..Len(feedback) : feedback[k].score = "4"

\* C27: story_editor given a CritiqueSet with no entry below 4 (the empty one
\* too) returns the story it was given and makes no call, and otherwise it
\* makes one; it returns early exactly when main's test would break the loop.
EditorEarlyReturn ==
    /\ []( pc \in {"parse_return", "edited"} =>
             /\ editor_returns_early(parsed_feedback) <=> NoneBelowFour(parsed_feedback)
             /\ editor_returns_early(parsed_feedback)
                    <=> Converges(low_entries(parsed_feedback)) )
    /\ [][ (pc = "parse_return" /\ pc' = "edited") =>
             IF NoneBelowFour(parsed_feedback)
             THEN /\ revised_story' = story
                  /\ UNCHANGED <<story, request, revise_calls, last_call>>
             ELSE /\ revise_calls' = revise_calls + 1
                  /\ last_call' = "revise"
                  /\ request'.story = story ]_vars

\* story_editor returned the story as it was for entries that all score 4.
ReturnedUnchanged ==
    /\ pc = "edited"
    /\ Len(parsed_feedback) = 2 /\ NoneBelowFour(parsed_feedback)
    /\ revised_story = story
    /\ revise_calls = 0 /\ request = NoRequest /\ last_call = "none"

\* The line l begins with the keyword kw and a colon, in any letter case.
BeginsWith(l, kw) ==
    /\ Len(l) > Len(kw)
    /\ \A i \in 1..Len(kw) : Lower(l[i]) = kw[i]
    /\ l[Len(kw) + 1] = ":"

IsReasonLine(l) == BeginsWith(l, Justification) \/ BeginsWith(l, Reasoning)

\* What follows the first colon of the line, without the whitespace around it.
Remainder(l) ==
    strip(From(l, Min({i \in 1..Len(l) : l[i] = ":"}) + 1))

\* The written entry recorded with the reasoning r.
RecordedWith(r) ==
    parsed_feedback = <<[cat |-> <<"a">>, score |-> "2", reasoning |-> r]>>

BareLow == Entry("raw", <<>>, <<>>, LowBare)

\* C28: an inline entry is recorded only with at least one character of
\* reasoning after the score: the block "<category> (<score>)" alone leaves
\* no entry, so its score below 4 asks for no revision, and an entry with an
\* empty reasoning was never recorded through the inline shape.
InlineNeedsReasoning ==
    pc = "parse_return" =>
        /\ (\A i \in 1..Len(written) : written[i].shape = "raw") =>
              /\ parsed_feedback = <<>>
              /\ Converges(low_entries(parsed_feedback))
        /\ \A i \in 1..Len(written) :
              written[i].shape = "inline" =>
                  \E k \in 1..Len(parsed_feedback) :
                      /\ parsed_feedback[k].cat = strip(written[i].cat)
                      /\ (\A j \in i + 1..Len(written) :
                             written[j].shape = "raw")
                         => parsed_feedback[k].reasoning # <<>>
        /\ \A k \in 1..Len(parsed_feedback) :
              parsed_feedback[k].reasoning = <<>> =>
                  \E i \in 1..Len(written) :
                      /\ written[i].shape \in {"twoline", "scoreonly"}
                      /\ written[i].reason = <<>>
                      /\ written[i].cat = parsed_feedback[k].cat
                      /\ written[i].tok[1] = parsed_feedback[k].score

\* "b (2)" after an entry of 4: only the entry of 4 is there, nothing to
\* revise.
BareLowDropped ==
    /\ pc = "parse_return"
    /\ Len(written) = 2
    /\ written[1] = Entry("inline", <<"a">>, <<"4">>, Ok)
    /\ written[2] = BareLow
    /\ parsed_feedback = <<Stated(written[1])>>
    /\ low_entries(parsed_feedback) = <<>>

\* A call of generate_story was made.
GenerationCalled == last_call \in {"generate", "judge", "revise"}

\* The number typed selects one of the suggestions.
InRange(u) == int_of_input(u) \in 1..Len(suggestions)

\* C29 as stated: in every run story generation is called exactly once, so a
\* run that has ended has called it.
GenerationInEveryRun ==
    pc \in {"done", "fault"} => GenerationCalled

\* C29: story generation is called at most once in a run, and exactly once
\* in a run that gets past its input loop.  The input loop ends only when
\* the classifier returned exactly SAFE for the typed topic or the user typed
\* a number within range of a non-empty suggestion list (the suggestion is
\* used unclassified); any other verdict or number keeps the run in the loop.
\* No classifier or suggester call follows a generation call.
GenerationOnceAfterInput ==
    /\ []( pc \in {"judge", "revise", "print", "done"} =>
             (GenerationCalled /\ Len(generated_stories) = 1) )
    /\ []( last_call \in {"classify", "suggest"} => generated_stories = <<>> )
    /\ [][ /\ (last_call' = "generate") =>
                  (pc = "generate" /\ ~GenerationCalled)
           /\ GenerationCalled => GenerationCalled'
           /\ (pc # "generate" /\ pc' = "generate") =>
                  \/ \E u \in TypedInputs : ClassifyInput(u, "SAFE")
                  \/ \E u \in TypedInputs :
                        /\ ChooseSuggestion(u)
                        /\ InRange(u)
                        /\ user_input' = suggestions[int_of_input(u)]
                        /\ last_call' = last_call
           /\ \A u \in TypedInputs :
                  /\ \A c \in Classifications \ {"SAFE"} :
                        ClassifyInput(u, c) => pc' # "generate"
                  /\ (ChooseSuggestion(u) /\ ~InRange(u)) => pc' = "input" ]_vars

\* The story was generated for a suggestion the user picked by its number.
GeneratedForSuggestion ==
    /\ pc = "judge"
    /\ last_call = "generate"
    /\ suggestions = <<"stars">> /\ user_input = "stars"
    /\ Len(generated_stories) = 1

\* C30 as stated: the list of generated stories is appended to exactly once
\* per run, so a run that has ended holds exactly one story in it.
AppendedInEveryRun ==
    pc \in {"done", "fault"} => Len(generated_stories) = 1

\* C30: the list of generated stories only grows, by at most one story in a
\* run and by exactly one in a run whose story generation returned: the
\* story just generated, put there before the first judge call.  A revised
\* story is never added.
AppendedOnceBeforeJudging ==
    /\ []( Len(generated_stories) <= 1 )
    /\ []( (GenerationCalled /\ pc # "fault") => Len(generated_stories) = 1 )
    /\ []( judge_request # NoJudgeRequest =>
             /\ Len(generated_stories) = 1
             /\ (iteration = 1 => generated_stories[1] = judge_request.story) )
    /\ [][ /\ (generated_stories' # generated_stories) =>
                  /\ pc = "generate"
                  /\ judge_request = NoJudgeRequest /\ judge_calls = 0
                  /\ generated_stories' = Append(generated_stories, story')
           /\ (pc = "revise") => generated_stories' = generated_stories ]_vars

\* A revised story is the current one and the list still holds only the
\* story that was generated first.
RevisedNotRecorded ==
    /\ iteration = 2
    /\ revise_calls = 1
    /\ story = "s2"
    /\ generated_stories = <<"s1">>


=============================================================================
